---- MODULE Spec2Model ----
(***************************************************************************)
(* Row-transformation pipeline of trainer/preprocess.py:                    *)
(*   Read/Parse input -> ExtractLabelIdsDoFn -> ReadImageAndConvertToJpegDoFn*)
(*   -> ExtractTextDataDoFn -> TFExampleFromImageDoFn -> sink.              *)
(* One row is in flight at a time (the DoFns are fused and each element is  *)
(* pushed through all of them before the next is read); the counters, the   *)
(* label map and the embedding store persist across rows.                   *)
(*                                                                          *)
(* Strings are sequences of one-character strings, so that strip() and      *)
(* split() are computed and not assumed.  Floats are modelled by integers.  *)
(* Numeric CSV fields are held by their int() value: only rows whose        *)
(* numeric fields parse are modelled.  The inference call of                *)
(* ExtractTextDataDoFn (extra_embedding) reads two fields no branch of the  *)
(* pipeline depends on; it and the pass-through fields are left out.        *)
(***************************************************************************)
EXTENDS Integers, Sequences, FiniteSets, TLC

(***************************************************************************)
(* Program constants.  The four imported from trainer.model are not part of *)
(* the source at hand; small stand-in values keep the arithmetic of the     *)
(* code (padding, truncation, range checks) visible.                        *)
(***************************************************************************)
BOTTLENECK_TENSOR_SIZE == 2
WORD_DIM == 2
MAX_WORDS_LENGTH == 2
TOTAL_CATEGORIES_COUNT == 2
\* for i in range(30): labels_counters.append(...)
NumLabelsCounters == 30
\* dtype=np.float32: four bytes per element
Float32Size == 4

(***************************************************************************)
(* Bounds of the model.                                                     *)
(***************************************************************************)
\* rows read from the input file in one run
MaxRows == 2

(***************************************************************************)
(* Python values.                                                           *)
(***************************************************************************)
\* None / a numpy array: the value of `embedding` between the stages
None == [is_none |-> TRUE, value |-> <<>>]
Array(v) == [is_none |-> FALSE, value |-> v]

\* [0.0] * n
Zeros(n) == [i \in 1..n |-> 0]

Whitespace == {" "}
Digits == {"0", "1", "2"}

\* str.strip(): leading and trailing whitespace removed
RECURSIVE lstrip(_)
lstrip(s) ==
  IF s # <<>> /\ Head(s) \in Whitespace THEN lstrip(Tail(s)) ELSE s

RECURSIVE rstrip(_)
rstrip(s) ==
  IF s # <<>> /\ s[Len(s)] \in Whitespace
  THEN rstrip(SubSeq(s, 1, Len(s) - 1))
  ELSE s

strip(s) == rstrip(lstrip(s))

\* str.split() without arguments: maximal runs of non-whitespace characters
RECURSIVE SplitFrom(_, _, _, _)
SplitFrom(s, i, cur, acc) ==
  IF i > Len(s)
  THEN (IF cur = <<>> THEN acc ELSE Append(acc, cur))
  ELSE IF s[i] \in Whitespace
       THEN SplitFrom(s, i + 1, <<>>, IF cur = <<>> THEN acc ELSE Append(acc, cur))
       ELSE SplitFrom(s, i + 1, Append(cur, s[i]), acc)

split(s) == SplitFrom(s, 1, <<>>, <<>>)

\* float(x) raises ValueError unless x is a number; here: a run of digits
FloatParses(tok) == tok # <<>> /\ \A i \in 1..Len(tok) : tok[i] \in Digits

DigitValue(c) == CASE c = "0" -> 0 [] c = "1" -> 1 [] c = "2" -> 2 [] OTHER -> 0

RECURSIVE FloatValue(_)
FloatValue(tok) ==
  IF tok = <<>> THEN 0
  ELSE 10 * FloatValue(SubSeq(tok, 1, Len(tok) - 1)) + DigitValue(tok[Len(tok)])

(***************************************************************************)
(* ExtractLabelIdsDoFn: the label map.                                      *)
(***************************************************************************)
\* self.label_to_id_map = {}
EmptyMap == [k \in {} |-> 0]

\* d[k] = v
MapPut(m, k, v) == [x \in (DOMAIN m) \cup {k} |-> IF x = k THEN v ELSE m[x]]

\* for i, label in enumerate(all_labels): map[label.strip()] = i
RECURSIVE BuildFrom(_, _, _)
BuildFrom(labels, n, m) ==
  IF n > Len(labels) THEN m
  ELSE BuildFrom(labels, n + 1, MapPut(m, strip(labels[n]), n - 1))

BuildLabelMap(labels) == BuildFrom(labels, 1, EmptyMap)

\* if not self.label_to_id_map: <build>
EnsureLabelMap(m, labels) ==
  IF DOMAIN m = {} THEN BuildLabelMap(labels) ELSE m

\* The try block of process(): the dictionary lookup and the per-label
\* counter access, with the exception either of them raises.
\* variant: the row's label is looked up as it is, without strip()
ResolveLabelNoStrip(m, label, ncounters) ==
  IF label \notin DOMAIN m
  THEN [outcome |-> "KeyError", label_id |-> 0]
  ELSE IF m[label] >= ncounters
       THEN [outcome |-> "IndexError", label_id |-> m[label]]
       ELSE [outcome |-> "ok", label_id |-> m[label]]

\* variant: an empty map is treated as a fatal error
ResolveLabelStrict(m, label, ncounters) ==
  IF DOMAIN m = {}
  THEN [outcome |-> "IndexError", label_id |-> 0]
  ELSE ResolveLabelNoStrip(m, strip(label), ncounters)

\* label_id = map[label.strip()]; labels_counters[label_id].inc()
ResolveLabel(m, label, ncounters) ==
  IF strip(label) \notin DOMAIN m
  THEN [outcome |-> "KeyError", label_id |-> 0]
  ELSE IF m[strip(label)] >= ncounters
       THEN [outcome |-> "IndexError", label_id |-> m[strip(label)]]
       ELSE [outcome |-> "ok", label_id |-> m[strip(label)]]

\* variants: the unlabeled counter is never, or always, incremented
UnlabeledNever(ids) == FALSE

UnlabeledAlways(ids) == TRUE

\* if not label_ids: unlabeled_image.inc()
Unlabeled(ids) == ids = <<>>

(***************************************************************************)
(* ReadImageAndConvertToJpegDoFn: the embedding store.                      *)
(***************************************************************************)
\* id_to_path(id): an injective function of the id (trainer.emb)
id_to_path(id) == id

\* a file of the store: present or not, and its bytes
NoFile == [exists |-> FALSE, content |-> <<>>]
File(bytes) == [exists |-> TRUE, content |-> bytes]

\* variant: only a negative count skips the store
NoImagesBelowZero(images_count) == images_count < 0

\* if images_count < 1: embedding = None
NoImages(images_count) == images_count < 1

\* One little-endian 4-byte element of the buffer (the integer the bytes
\* spell stands for the float they encode).
ElementAt(bytes, k) ==
  LET b == (k - 1) * Float32Size
  IN  bytes[b + 1] + 256 * bytes[b + 2] + 65536 * bytes[b + 3]
      + 16777216 * bytes[b + 4]

\* np.frombuffer(bytes, dtype=np.float32) on a buffer of whole elements
DecodeFloats(bytes) ==
  [k \in 1..(Len(bytes) \div Float32Size) |-> ElementAt(bytes, k)]

\* The ValueError, if any, of frombuffer(...).reshape(SHAPE):
\*   "buffer size must be a multiple of element size"      (frombuffer)
\*   "cannot reshape array of size N into shape (1,1,1,B)" (reshape)
LoadError(bytes) ==
  IF Len(bytes) % Float32Size # 0
  THEN [kind |-> "buffer_size", size |-> 0]
  ELSE IF Len(bytes) \div Float32Size # BOTTLENECK_TENSOR_SIZE
       THEN [kind |-> "reshape", size |-> Len(bytes) \div Float32Size]
       ELSE [kind |-> "none", size |-> BOTTLENECK_TENSOR_SIZE]

\* variant: every reshape failure is taken for the empty payload
IsSizeZeroMessageAnyReshape(err) == err.kind = "reshape"

\* e.message.startswith('cannot reshape array of size 0 into')
IsSizeZeroMessage(err) == err.kind = "reshape" /\ err.size = 0

\* _fetch_embedding(emb_filepath): what it returns or raises, how often it
\* counts an error and whether it deletes the file.  The try block assigns
\* the reshaped array to a local and the function ends without a return
\* statement, so a successful load returns None as well.
fetch_embedding(bytes) ==
  LET err == LoadError(bytes)
  IN  IF err.kind = "none"
      THEN [raised |-> FALSE, errors |-> 0, delete |-> FALSE, result |-> None]
      ELSE IF IsSizeZeroMessage(err)
           THEN [raised |-> FALSE, errors |-> 1, delete |-> TRUE, result |-> None]
           ELSE [raised |-> TRUE, errors |-> 1, delete |-> FALSE, result |-> None]

(***************************************************************************)
(* ExtractTextDataDoFn.                                                     *)
(***************************************************************************)
\* get_embedding_and_length(inline, max_length); `/` is Python 2 integer
\* division.  raised: a token float() rejects.
get_embedding_and_length(inline, max_length) ==
  LET toks == IF inline = <<>> THEN <<>> ELSE split(inline)
  IN  IF \E i \in 1..Len(toks) : ~FloatParses(toks[i])
      THEN [raised |-> TRUE, embedding |-> <<>>, length |-> 0]
      ELSE LET emb == [i \in 1..Len(toks) |-> FloatValue(toks[i])]
               length == Len(emb) \div WORD_DIM
           IN  IF length > max_length
               THEN [raised |-> FALSE,
                     embedding |-> SubSeq(emb, 1, WORD_DIM * max_length),
                     length |-> max_length]
               ELSE [raised |-> FALSE,
                     embedding |-> emb \o Zeros((max_length - length) * WORD_DIM),
                     length |-> length]

\* if text_length < 1: no_texts_count.inc()
NoText(text_length) == text_length < 1

(***************************************************************************)
(* TFExampleFromImageDoFn.                                                  *)
(***************************************************************************)
\* variant: the substitute vector is one element short
EmptyEmbeddingShort == Zeros(BOTTLENECK_TENSOR_SIZE - 1)

\* self._empty_embedding = [0.0] * BOTTLENECK_TENSOR_SIZE
EmptyEmbedding == Zeros(BOTTLENECK_TENSOR_SIZE)

\* if category_id < 1 or category_id - 1 > TOTAL_CATEGORIES_COUNT: the row
\* ends with error_count.inc() and a raise (of a str, itself an error)
CategoryRejected(category_id) ==
  category_id < 1 \/ category_id - 1 > TOTAL_CATEGORIES_COUNT

\* embedding = self._empty_embedding if None else embedding.ravel().tolist()
ExampleEmbedding(emb) == IF emb.is_none THEN EmptyEmbedding ELSE emb.value

(***************************************************************************)
(* Inputs.                                                                  *)
(***************************************************************************)
\* the label of dictionary line k (0-based) of the long dictionary
LongLabel(k) == [j \in 1..(k + 1) |-> "z"]

\* a dictionary with one line more than there are per-label counters
LongDictionary == [n \in 1..(NumLabelsCounters + 1) |-> LongLabel(n - 1)]

\* the dictionary files of the model: empty; two labels, one with trailing
\* whitespace; a label listed twice; more labels than counters
Dictionaries ==
  { <<>>,
    << <<"b">>, <<"a", " ">> >>,
    << <<"a">>, <<"b">>, <<" ", "a">> >>,
    LongDictionary }

\* the label field of a row: known after strip(), unknown, the last label
\* of the long dictionary (index NumLabelsCounters)
RowLabels == { <<" ", "a">>, <<"c">>, LongLabel(NumLabelsCounters) }

\* category ids: 0, the last valid one, and the two above it
RowCategories == {0} \cup (TOTAL_CATEGORIES_COUNT..(TOTAL_CATEGORIES_COUNT + 2))

RowImagesCounts == {0, 1}

\* n tokens "1", separated by single blanks
RECURSIVE Tokens(_)
Tokens(n) ==
  IF n = 0 THEN <<>>
  ELSE IF n = 1 THEN <<"1">>
  ELSE Tokens(n - 1) \o <<" ", "1">>

\* token counts: none; one word; one word and a token; the full matrix
\* and a token; one word more than the matrix
TokenCounts ==
  { 0, WORD_DIM, WORD_DIM + 1, WORD_DIM * MAX_WORDS_LENGTH + 1,
    WORD_DIM * (MAX_WORDS_LENGTH + 1) }

\* text_embedding_inline: the token strings, and one float() rejects
RowTexts == { Tokens(n) : n \in TokenCounts } \cup { <<"1", " ", "x">> }

\* the only item id of the model
ItemId == 7

\* csv.reader(...).next(): [] for an empty line, else the fields
EmptyRow ==
  [empty |-> TRUE, id |-> 0, label |-> <<>>, category_id |-> 0,
   images_count |-> 0, text |-> <<>>]

Rows ==
  { EmptyRow } \cup
  [empty : {FALSE}, id : {ItemId}, label : RowLabels,
   category_id : RowCategories, images_count : RowImagesCounts,
   text : RowTexts]

\* a well-formed embedding file: BOTTLENECK_TENSOR_SIZE elements 1, 2, ...
GoodBytes ==
  [i \in 1..(Float32Size * BOTTLENECK_TENSOR_SIZE) |->
     IF i % Float32Size = 1 THEN (i \div Float32Size) + 1 ELSE 0]

\* the embedding file of the item: none, zero bytes, well-formed, one
\* element short, not a whole number of elements
StoredFiles ==
  { NoFile, File(<<>>), File(GoodBytes),
    File(SubSeq(GoodBytes, 1, Len(GoodBytes) - Float32Size)),
    File(SubSeq(GoodBytes, 1, Len(GoodBytes) - 1)) }

NoData == [text_embedding |-> <<>>, text_length |-> 0]

NoExample ==
  [id |-> 0, embedding |-> <<>>, text_embedding |-> <<>>, text_length |-> 0,
   category_id |-> 0, label |-> <<>>]

(***************************************************************************)
(* State.                                                                   *)
(***************************************************************************)
VARIABLES
  all_labels,          \* the 'Read dictionary' side input
  label_to_id_map,     \* ExtractLabelIdsDoFn.label_to_id_map
  files,               \* the embedding store: path -> file
  error_count, csv_rows_count, skipped_empty_line, unlabeled_image,
  unknown_label, empty_imgs_count, no_texts_count,
  labels_counters,     \* the per-label counters, index 0..29
  pc,                  \* where the row in flight is
  row,                 \* the parsed row in flight
  label_ids,           \* output of ExtractLabelIdsDoFn
  embedding,           \* output of ReadImageAndConvertToJpegDoFn
  data,                \* output of ExtractTextDataDoFn
  example,             \* output of TFExampleFromImageDoFn
  raised,              \* the exception the row's processing ended with
  io_log,              \* file_io calls made for the row in flight
  rows_read,           \* rows read from the input so far
  output_count,        \* records handed to the sink
  index_errors         \* rows that ended in the IndexError of the label stage

counters ==
  <<error_count, csv_rows_count, skipped_empty_line, unlabeled_image,
    unknown_label, empty_imgs_count, no_texts_count, labels_counters>>

element == <<row, label_ids, embedding, data, example>>

vars ==
  <<all_labels, label_to_id_map, files, counters, pc, element, raised,
    io_log, rows_read, output_count, index_errors>>

\* ExtractLabelIdsDoFn.start_bundle, the module-level counters, an input
\* dictionary and an embedding store
Init ==
  /\ all_labels \in Dictionaries
  /\ label_to_id_map = EmptyMap
  /\ files \in [{id_to_path(ItemId)} -> StoredFiles]
  /\ error_count = 0
  /\ csv_rows_count = 0
  /\ skipped_empty_line = 0
  /\ unlabeled_image = 0
  /\ unknown_label = 0
  /\ empty_imgs_count = 0
  /\ no_texts_count = 0
  /\ labels_counters = [i \in 0..(NumLabelsCounters - 1) |-> 0]
  /\ pc = "idle"
  /\ row = EmptyRow
  /\ label_ids = <<>>
  /\ embedding = None
  /\ data = NoData
  /\ example = NoExample
  /\ raised = "none"
  /\ io_log = <<>>
  /\ rows_read = 0
  /\ output_count = 0
  /\ index_errors = 0

\* the row in flight has left the pipeline: emitted, dropped or failed
Finished == pc \in {"idle", "emitted", "skipped", "failed"}

(***************************************************************************)
(* 'Read input' and 'Parse input': the next row enters the pipeline.        *)
(***************************************************************************)
ReadInput ==
  /\ Finished
  /\ rows_read < MaxRows
  /\ \E r \in Rows : row' = r
  /\ pc' = "parsed"
  /\ rows_read' = rows_read + 1
  /\ label_ids' = <<>>
  /\ embedding' = None
  /\ data' = NoData
  /\ example' = NoExample
  /\ raised' = "none"
  /\ io_log' = <<>>
  /\ UNCHANGED <<all_labels, label_to_id_map, files, counters, output_count,
                 index_errors>>

(***************************************************************************)
(* ExtractLabelIdsDoFn.process(row, all_labels)                             *)
(***************************************************************************)
ExtractLabelIds ==
  /\ pc = "parsed"
  /\ label_to_id_map' = EnsureLabelMap(label_to_id_map, all_labels)
  /\ IF row.empty
     THEN /\ skipped_empty_line' = skipped_empty_line + 1
          /\ pc' = "skipped"
          /\ UNCHANGED <<csv_rows_count, labels_counters, unknown_label,
                         unlabeled_image, label_ids, raised, index_errors>>
     ELSE LET r == ResolveLabel(label_to_id_map', row.label,
                                NumLabelsCounters)
              ids == IF r.outcome = "ok" THEN <<r.label_id>> ELSE <<>>
          IN  /\ csv_rows_count' = csv_rows_count + 1
              /\ skipped_empty_line' = skipped_empty_line
              /\ IF r.outcome = "IndexError"
                 THEN /\ pc' = "failed"
                      /\ raised' = "IndexError"
                      /\ index_errors' = index_errors + 1
                      /\ UNCHANGED <<labels_counters, unknown_label,
                                     unlabeled_image, label_ids>>
                 ELSE /\ labels_counters' =
                           IF r.outcome = "ok"
                           THEN [labels_counters EXCEPT ![r.label_id] = @ + 1]
                           ELSE labels_counters
                      /\ unknown_label' =
                           IF r.outcome = "KeyError"
                           THEN unknown_label + 1 ELSE unknown_label
                      /\ unlabeled_image' =
                           IF Unlabeled(ids)
                           THEN unlabeled_image + 1 ELSE unlabeled_image
                      /\ label_ids' = ids
                      /\ pc' = "labeled"
                      /\ UNCHANGED <<raised, index_errors>>
  /\ UNCHANGED <<all_labels, files, error_count, empty_imgs_count,
                 no_texts_count, row, embedding, data, example, io_log,
                 rows_read, output_count>>

(***************************************************************************)
(* ReadImageAndConvertToJpegDoFn.process(element)                           *)
(***************************************************************************)
ReadImage ==
  /\ pc = "labeled"
  /\ LET path == id_to_path(row.id)
     IN  IF NoImages(row.images_count)
         THEN /\ embedding' = None
              /\ pc' = "embedded"
              /\ UNCHANGED <<files, empty_imgs_count, error_count, raised,
                             io_log>>
         ELSE IF ~files[path].exists
              THEN /\ embedding' = None
                   /\ empty_imgs_count' = empty_imgs_count + 1
                   /\ io_log' = <<"file_exists">>
                   /\ pc' = "embedded"
                   /\ UNCHANGED <<files, error_count, raised>>
              ELSE LET f == fetch_embedding(files[path].content)
                   IN  /\ error_count' = error_count + f.errors
                       /\ files' = IF f.delete
                                   THEN [files EXCEPT ![path] = NoFile]
                                   ELSE files
                       /\ io_log' =
                            IF f.delete
                            THEN <<"file_exists", "read_file_to_string",
                                   "delete_file">>
                            ELSE <<"file_exists", "read_file_to_string">>
                       /\ embedding' = f.result
                       /\ raised' = IF f.raised THEN "ValueError" ELSE raised
                       /\ pc' = IF f.raised THEN "failed" ELSE "embedded"
                       /\ UNCHANGED empty_imgs_count
  /\ UNCHANGED <<all_labels, label_to_id_map, csv_rows_count,
                 skipped_empty_line, unlabeled_image, unknown_label,
                 no_texts_count, labels_counters, row, label_ids, data,
                 example, rows_read, output_count, index_errors>>

(***************************************************************************)
(* ExtractTextDataDoFn.process(element)                                     *)
(***************************************************************************)
ExtractTextData ==
  /\ pc = "embedded"
  /\ LET t == get_embedding_and_length(row.text, MAX_WORDS_LENGTH)
     IN  IF t.raised
         THEN /\ error_count' = error_count + 1
              /\ raised' = "TextError"
              /\ pc' = "failed"
              /\ UNCHANGED <<no_texts_count, data>>
         ELSE /\ no_texts_count' =
                   IF NoText(t.length)
                   THEN no_texts_count + 1 ELSE no_texts_count
              /\ data' = [text_embedding |-> t.embedding,
                          text_length |-> t.length]
              /\ pc' = "texted"
              /\ UNCHANGED <<error_count, raised>>
  /\ UNCHANGED <<all_labels, label_to_id_map, files, csv_rows_count,
                 skipped_empty_line, unlabeled_image, unknown_label,
                 empty_imgs_count, labels_counters, row, label_ids,
                 embedding, example, io_log, rows_read, output_count,
                 index_errors>>

(***************************************************************************)
(* TFExampleFromImageDoFn.process(element), and the sink                    *)
(***************************************************************************)
TFExampleFromImage ==
  /\ pc = "texted"
  /\ IF CategoryRejected(row.category_id)
     THEN /\ error_count' = error_count + 1
          /\ raised' = "CategoryError"
          /\ pc' = "failed"
          /\ UNCHANGED <<example, output_count>>
     ELSE /\ example' =
               [id |-> row.id,
                embedding |-> ExampleEmbedding(embedding),
                text_embedding |-> data.text_embedding,
                text_length |-> data.text_length,
                category_id |-> row.category_id,
                label |-> label_ids]
          /\ output_count' = output_count + 1
          /\ pc' = "emitted"
          /\ UNCHANGED <<error_count, raised>>
  /\ UNCHANGED <<all_labels, label_to_id_map, files, csv_rows_count,
                 skipped_empty_line, unlabeled_image, unknown_label,
                 empty_imgs_count, no_texts_count, labels_counters, row,
                 label_ids, embedding, data, io_log, rows_read,
                 index_errors>>

Next ==
  \/ ReadInput
  \/ ExtractLabelIds
  \/ ReadImage
  \/ ExtractTextData
  \/ TFExampleFromImage

Spec == Init /\ [][Next]_vars

(***************************************************************************)
(* Properties.                                                              *)
(***************************************************************************)
\* the path of the embedding file of the row in flight
RowPath == id_to_path(row.id)

\* the 0-based dictionary indexes whose trimmed entry is the trimmed label
MatchingIndexes(label) ==
  { i \in 0..(Len(all_labels) - 1) : strip(all_labels[i + 1]) = strip(label) }

SetMax(S) == CHOOSE x \in S : \A y \in S : y <= x

RECURSIVE SumUpTo(_, _)
SumUpTo(f, n) == IF n < 0 THEN 0 ELSE f[n] + SumUpTo(f, n - 1)

\* the sum of all per-label counters
LabelsTotal == SumUpTo(labels_counters, NumLabelsCounters - 1)

\* the categories the specification calls valid
CategoryInRange(c) == 1 <= c /\ c <= TOTAL_CATEGORIES_COUNT

\* the embedding file of the row in flight holds a non-empty payload that
\* does not load as BOTTLENECK_TENSOR_SIZE floats
MalformedPayload ==
  /\ files[RowPath].exists
  /\ files[RowPath].content # <<>>
  /\ LoadError(files[RowPath].content).kind # "none"

\* C1: for every token string whose tokens parse, the text stage hands on
\* exactly WORD_DIM * MAX_WORDS_LENGTH values and a length in
\* 0..MAX_WORDS_LENGTH.
C1_TextShape ==
  pc = "texted" =>
    /\ Len(data.text_embedding) = WORD_DIM * MAX_WORDS_LENGTH
    /\ data.text_length \in 0..MAX_WORDS_LENGTH

\* C2: a record is emitted only for 1 <= category_id <= TOTAL_CATEGORIES_COUNT,
\* and every other category id ends the row with the category error, the
\* error counter incremented by one and no record emitted.
C2_CategoryChecked ==
  [][ pc = "texted" =>
        IF CategoryInRange(row.category_id)
        THEN pc' = "emitted"
        ELSE /\ pc' = "failed"
             /\ raised' = "CategoryError"
             /\ error_count' = error_count + 1
             /\ output_count' = output_count ]_vars

\* C3: with images_count >= 1 and a stored payload of exactly the expected
\* length, the embedding stage yields the floats read from the file, and the
\* emitted record carries them.
C3_StoredEmbeddingUsed ==
  ( /\ pc \in {"embedded", "texted", "emitted"}
    /\ row.images_count >= 1
    /\ files[RowPath].exists
    /\ LoadError(files[RowPath].content).kind = "none" )
  => /\ embedding = Array(DecodeFloats(files[RowPath].content))
     /\ pc = "emitted" =>
          example.embedding = DecodeFloats(files[RowPath].content)

\* C4 as stated: a non-empty row whose category id is in range and whose
\* text tokens parse never ends in a failure.
C4_Original ==
  ( /\ ~row.empty
    /\ CategoryInRange(row.category_id)
    /\ ~get_embedding_and_length(row.text, MAX_WORDS_LENGTH).raised )
  => pc # "failed"

\* C4, amended: a non-empty row whose label index is inside the counter
\* range, whose embedding payload is not malformed, whose text tokens parse
\* and whose category id is in range passes every stage and yields exactly
\* one record; an unknown label gives an empty label list, a missing or
\* zero-byte embedding file an all-zero image embedding of length
\* BOTTLENECK_TENSOR_SIZE, no text tokens a text length 0 and an all-zero
\* text embedding; no other step writes a record, and the next row can be
\* read afterwards.
C4_DataQualityTolerated ==
  [][ /\ ( /\ pc = "parsed"
           /\ ~row.empty
           /\ \A i \in MatchingIndexes(row.label) : i < NumLabelsCounters )
         => /\ pc' = "labeled"
            /\ MatchingIndexes(row.label) = {} => label_ids' = <<>>
      /\ (pc = "labeled" /\ (row.images_count < 1 \/ ~MalformedPayload))
         => /\ pc' = "embedded"
            /\ ( \/ ~files[RowPath].exists
                 \/ files[RowPath].content = <<>> ) => embedding' = None
      /\ ( /\ pc = "embedded"
           /\ ~get_embedding_and_length(row.text, MAX_WORDS_LENGTH).raised )
         => /\ pc' = "texted"
            /\ split(row.text) = <<>> =>
                 /\ data'.text_length = 0
                 /\ data'.text_embedding = Zeros(WORD_DIM * MAX_WORDS_LENGTH)
      /\ (pc = "texted" /\ CategoryInRange(row.category_id))
         => /\ pc' = "emitted"
            /\ output_count' = output_count + 1
            /\ example'.label = label_ids
            /\ example'.text_length = data.text_length
            /\ example'.text_embedding = data.text_embedding
            /\ embedding.is_none =>
                 example'.embedding = Zeros(BOTTLENECK_TENSOR_SIZE)
      /\ pc # "texted" => output_count' = output_count
      /\ (pc = "emitted" /\ rows_read < MaxRows) => pc' = "parsed" ]_vars

\* C4 witness: the second row is emitted after the first, with an unknown
\* label, a zero-byte embedding file (deleted) and no text tokens.
C4_Witness ==
  /\ pc = "emitted"
  /\ rows_read = 2
  /\ output_count = 2
  /\ example.label = <<>>
  /\ io_log = <<"file_exists", "read_file_to_string", "delete_file">>
  /\ example.embedding = Zeros(BOTTLENECK_TENSOR_SIZE)
  /\ example.text_length = 0
  /\ example.text_embedding = Zeros(WORD_DIM * MAX_WORDS_LENGTH)

\* C5: an existing embedding file whose payload does not load counts exactly
\* one error; an empty payload is deleted, None is returned and the row goes
\* on; a non-empty one raises, is not deleted, and the row emits no record.
C5_CorruptPayload ==
  [][ /\ ( /\ pc = "labeled"
           /\ row.images_count >= 1
           /\ files[RowPath].exists
           /\ LoadError(files[RowPath].content).kind # "none" )
         => /\ error_count' = error_count + 1
            /\ IF files[RowPath].content = <<>>
               THEN /\ files' = [files EXCEPT ![RowPath] = NoFile]
                    /\ embedding' = None
                    /\ pc' = "embedded"
                    /\ raised' = "none"
               ELSE /\ files' = files
                    /\ pc' = "failed"
                    /\ raised' = "ValueError"
      /\ pc = "failed" => output_count' = output_count ]_vars

\* C5 witness: a zero-byte file was read, counted as one error and deleted,
\* and the row has gone on to the text stage's input.
C5_Witness ==
  /\ pc = "embedded"
  /\ io_log = <<"file_exists", "read_file_to_string", "delete_file">>
  /\ ~files[RowPath].exists
  /\ embedding = None
  /\ error_count = 1

\* C6: with images_count < 1 the embedding stage returns None, calls no
\* storage operation and changes neither the missing-embedding counter nor
\* the error counter.
C6_NoImagesNoStorage ==
  [][ (pc = "labeled" /\ row.images_count < 1)
      => /\ pc' = "embedded"
         /\ embedding' = None
         /\ io_log' = <<>>
         /\ files' = files
         /\ empty_imgs_count' = empty_imgs_count
         /\ error_count' = error_count ]_vars

\* C6 witness: a row without images has passed the embedding stage while its
\* embedding file exists, untouched.
C6_Witness ==
  /\ pc = "embedded"
  /\ row.images_count = 0
  /\ files[RowPath].exists
  /\ io_log = <<>>
  /\ embedding = None

\* C7 as stated: for every index i inside the counter range whose trimmed
\* dictionary entry is the row's trimmed label, the label ids are [i] and
\* only counter i moves, by one.
C7_Original ==
  [][ (pc = "parsed" /\ ~row.empty)
      => \A i \in MatchingIndexes(row.label) :
           i < NumLabelsCounters =>
             /\ label_ids' = <<i>>
             /\ labels_counters' = [labels_counters EXCEPT ![i] = @ + 1]
             /\ unknown_label' = unknown_label
             /\ unlabeled_image' = unlabeled_image ]_vars

\* C7, amended: when i is the LAST dictionary index whose trimmed entry is
\* the row's trimmed label, and i is inside the counter range, the label ids
\* are [i], counter i moves by one, and no other per-label counter, nor the
\* unknown-label or the unlabeled counter, moves.
C7_LastMatchResolved ==
  [][ ( /\ pc = "parsed"
        /\ ~row.empty
        /\ MatchingIndexes(row.label) # {}
        /\ SetMax(MatchingIndexes(row.label)) < NumLabelsCounters )
      => LET i == SetMax(MatchingIndexes(row.label))
         IN  /\ pc' = "labeled"
             /\ label_ids' = <<i>>
             /\ labels_counters' = [labels_counters EXCEPT ![i] = @ + 1]
             /\ unknown_label' = unknown_label
             /\ unlabeled_image' = unlabeled_image ]_vars

\* C7 witness: a label that matches its dictionary entry only after
\* trimming was resolved and counted once.
C7_Witness ==
  /\ pc = "labeled"
  /\ label_ids # <<>>
  /\ all_labels[label_ids[1] + 1] # row.label
  /\ labels_counters[label_ids[1]] = 1
  /\ LabelsTotal = 1
  /\ unknown_label = 0
  /\ unlabeled_image = 0

\* C8: a non-empty row whose trimmed label is not in the dictionary gets an
\* empty label id list, one unknown-label and one unlabeled count, no
\* per-label count, and goes on to the next stage.
C8_UnknownLabel ==
  [][ (pc = "parsed" /\ ~row.empty /\ MatchingIndexes(row.label) = {})
      => /\ pc' = "labeled"
         /\ label_ids' = <<>>
         /\ unknown_label' = unknown_label + 1
         /\ unlabeled_image' = unlabeled_image + 1
         /\ labels_counters' = labels_counters ]_vars

\* C8 witness: with a non-empty dictionary, a row with an unknown label has
\* passed the label stage.
C8_Witness ==
  /\ pc = "labeled"
  /\ all_labels # <<>>
  /\ MatchingIndexes(row.label) = {}
  /\ label_ids = <<>>
  /\ unknown_label = 1
  /\ unlabeled_image = 1

\* C9 as stated: with an empty dictionary no row leaves the label stage as a
\* resolved row; its processing raises.
C9_Original == all_labels = <<>> => pc # "labeled"

\* C9, amended: with an empty dictionary the build step raises nothing and
\* leaves the map empty; a non-empty row is resolved as an ordinary
\* unknown-label row (empty label id list, unknown-label and unlabeled
\* counters incremented) and goes on to the next stage.
C9_EmptyDictionaryTolerated ==
  [][ (all_labels = <<>> /\ pc = "parsed" /\ ~row.empty)
      => /\ pc' = "labeled"
         /\ raised' = "none"
         /\ DOMAIN label_to_id_map' = {}
         /\ label_ids' = <<>>
         /\ unknown_label' = unknown_label + 1
         /\ unlabeled_image' = unlabeled_image + 1 ]_vars

\* C9 witness: a row was resolved against the empty dictionary.
C9_Witness ==
  /\ all_labels = <<>>
  /\ pc = "labeled"
  /\ raised = "none"
  /\ unknown_label = 1

\* rows the label stage has processed
LabelStageRows == rows_read - (IF pc = "parsed" THEN 1 ELSE 0)

\* C10: as long as no row ended in the label stage's IndexError, skipped +
\* csv rows = rows processed, csv rows = per-label counts + unknown labels,
\* unlabeled = unknown; an empty row changes only skipped_empty_line and
\* emits nothing.
C10_CounterAccounting ==
  /\ [](index_errors = 0 =>
          /\ skipped_empty_line + csv_rows_count = LabelStageRows
          /\ csv_rows_count = LabelsTotal + unknown_label
          /\ unlabeled_image = unknown_label)
  /\ [][ (pc = "parsed" /\ row.empty)
         => /\ pc' = "skipped"
            /\ skipped_empty_line' = skipped_empty_line + 1
            /\ UNCHANGED <<error_count, csv_rows_count, unlabeled_image,
                           unknown_label, empty_imgs_count, no_texts_count,
                           labels_counters, output_count>> ]_vars

\* C10 witness: an empty row, a resolved row and no IndexError.
C10_Witness ==
  /\ Finished
  /\ rows_read = 2
  /\ index_errors = 0
  /\ skipped_empty_line = 1
  /\ csv_rows_count = 1
  /\ LabelsTotal = 1

====
